---- MODULE Spec2Model ----
(***************************************************************************)
(* A model of the concept store (knowledge_graph.py) and of the slide deck *)
(* generator with its orchestration entry point (slides.py).               *)
(*                                                                         *)
(* Text.  A Python str is modelled as a sequence of atoms.  An atom is     *)
(* either one whitespace character (" ", "\n", "\t") or a non-empty run of *)
(* non-whitespace characters ("nodes.", "...", "Trees").  Concatenation of *)
(* strings is concatenation of sequences, so two adjacent non-whitespace   *)
(* atoms belong to the same word, exactly as adjacent characters do.       *)
(***************************************************************************)
EXTENDS Integers, Sequences, FiniteSets, TLC

(***************************************************************************)
(* Python built-ins used by the source                                     *)
(***************************************************************************)

\* The characters str.split() treats as separators.
IsSpace(c) == c \in {" ", "\n", "\t"}

\* The indices 1..n in order.
Indices(n) == [i \in 1..n |-> i]

\* Position i of text starts a word: it is not whitespace and follows
\* whitespace or nothing.
IsWordStart(text, i) ==
    ~IsSpace(text[i]) /\ (i = 1 \/ IsSpace(text[i - 1]))

\* The last position of the word that starts at i.
WordEnd(text, i) ==
    CHOOSE j \in i..Len(text) :
        /\ \A k \in i..j : ~IsSpace(text[k])
        /\ j = Len(text) \/ IsSpace(text[j + 1])

\* text.split(): the maximal runs of non-whitespace, in order; no empty word.
split(text) ==
    LET starts == SelectSeq(Indices(Len(text)),
                            LAMBDA i : IsWordStart(text, i))
    IN  [k \in 1..Len(starts) |->
            SubSeq(text, starts[k], WordEnd(text, starts[k]))]

RECURSIVE join(_, _)
\* sep.join(lst)
join(sep, lst) ==
    IF Len(lst) = 0 THEN <<>>
    ELSE IF Len(lst) = 1 THEN lst[1]
    ELSE LET h == Len(lst) \div 2
         IN  join(sep, SubSeq(lst, 1, h)) \o sep
                 \o join(sep, SubSeq(lst, h + 1, Len(lst)))

\* lst[:n], with Python's meaning of a negative n.
SliceTo(lst, n) ==
    LET stop == IF n < 0 THEN (IF Len(lst) + n < 0 THEN 0 ELSE Len(lst) + n)
                ELSE (IF n > Len(lst) THEN Len(lst) ELSE n)
    IN  SubSeq(lst, 1, stop)

\* A string literal of the source made of the given words separated by
\* single spaces.
T(ws) == join(<<" ">>, [i \in 1..Len(ws) |-> <<ws[i]>>])

(***************************************************************************)
(* slides.py: configuration and templates                                  *)
(***************************************************************************)

\* The dash of the source, U+2014, is written "--".
TITLE_INTRO_TEMPLATE(concept) ==
    T(<<"Welcome", "--", "today", "we'll", "learn", "about">>)
        \o <<" ">> \o concept \o <<".">>

DEFINITION_TEMPLATE_BEGINNER(concept, definition) ==
    concept \o <<" ">> \o T(<<"can", "be", "understood", "as:">>) \o <<" ">>
        \o definition \o <<" ">>
        \o T(<<"I'll", "explain", "the", "idea", "step", "by", "step",
               "with", "a", "simple", "example.">>)

DEFINITION_TEMPLATE_ADVANCED(concept, definition) ==
    T(<<"Formally,">>) \o <<" ">> \o concept \o <<" ">> \o T(<<"is:">>)
        \o <<" ">> \o definition \o <<" ">>
        \o T(<<"We'll", "also", "highlight", "important", "properties",
               "and", "implications.">>)

EXAMPLE_TEMPLATE(example_brief, example_point) ==
    T(<<"Example:", "Consider">>) \o <<" ">> \o example_brief \o <<".", " ">>
        \o T(<<"This", "demonstrates", "the", "main", "idea:">>) \o <<" ">>
        \o example_point \o <<".">>

RELATED_TEMPLATE(related_list) ==
    T(<<"Related", "topics", "you", "might", "want", "to", "learn", "next:">>)
        \o <<" ">> \o related_list \o <<".">>

(***************************************************************************)
(* slides.py: utilities                                                    *)
(***************************************************************************)

\* [str(x) for x in lst if x]: the entries that are not the empty string.
Truthy(lst) == SelectSeq(lst, LAMBDA x : x # <<>>)

safe_join(lst) == join(<<",", " ">>, Truthy(lst))

Ellipsis == <<"...">>

\* Variant: the suffix is appended from max_words words on, not only above.
truncate_text_ge(text, max_words) ==
    LET words == split(text)
    IN  join(<<" ">>, SliceTo(words, max_words))
            \o (IF Len(words) >= max_words THEN Ellipsis ELSE <<>>)

truncate_text(text, max_words) ==
    LET words == split(text)
    IN  join(<<" ">>, SliceTo(words, max_words))
            \o (IF Len(words) > max_words THEN Ellipsis ELSE <<>>)

(***************************************************************************)
(* slides.py: generate_slide_deck                                          *)
(***************************************************************************)

\* Variant: the subtitle is cut at truncate_text's default limit of 30 words.
title_slide_default_limit(concept_name, definition) ==
    [type |-> "title",
     title |-> T(<<"Introduction", "to">>) \o <<" ">> \o concept_name,
     subtitle |-> truncate_text(definition, 30),
     duration_sec |-> 4]

title_slide(concept_name, definition) ==
    [type |-> "title",
     title |-> T(<<"Introduction", "to">>) \o <<" ">> \o concept_name,
     subtitle |-> truncate_text(definition, 15),
     duration_sec |-> 4]

definition_text(concept_name, definition, audience_level) ==
    IF audience_level = "beginner"
    THEN DEFINITION_TEMPLATE_BEGINNER(concept_name, definition)
    ELSE DEFINITION_TEMPLATE_ADVANCED(concept_name, definition)

definition_slide(concept_name, definition, audience_level) ==
    [type |-> "definition",
     title |-> T(<<"What", "is">>) \o <<" ">> \o concept_name \o <<"?">>,
     bullets |-> <<truncate_text(definition, 20)>>,
     notes |-> definition_text(concept_name, definition, audience_level),
     duration_sec |-> 10]

example_brief(related) ==
    IF related # <<>>
    THEN T(<<"a", "simple", "case", "involving">>) \o <<" ">> \o related[1]
    ELSE T(<<"a", "simple", "conceptual", "scenario">>)

example_point(concept_name, related) ==
    IF related # <<>>
    THEN T(<<"how">>) \o <<" ">> \o concept_name \o <<" ">> \o T(<<"uses">>)
             \o <<" ">> \o related[1] \o <<" ">>
             \o T(<<"in", "structure/operation">>)
    ELSE T(<<"the", "core", "intuition", "behind">>) \o <<" ">> \o concept_name

example_slide(concept_name, related) ==
    [type |-> "example",
     title |-> T(<<"Simple", "example:">>) \o <<" ">>
                   \o truncate_text(example_brief(related), 6),
     bullets |-> << T(<<"Set", "up", "the", "scenario">>),
                    T(<<"Apply", "the", "core", "idea", "of">>) \o <<" ">>
                        \o concept_name,
                    T(<<"Observe", "the", "result", "/", "takeaway">>) >>,
     notes |-> EXAMPLE_TEMPLATE(example_brief(related),
                                example_point(concept_name, related)),
     duration_sec |-> 12]

NoRelatedTopics == T(<<"No", "related", "topics", "available.">>)
NoFurtherReading == T(<<"Further", "reading", "not", "available">>)

related_list_str(related) ==
    IF related # <<>> THEN safe_join(related) ELSE NoRelatedTopics

\* Variant: the bullets are the related list even when it is empty.
related_slide_verbatim(related) ==
    [type |-> "related",
     title |-> T(<<"Related", "topics", "&", "next", "steps">>),
     bullets |-> related,
     notes |-> RELATED_TEMPLATE(related_list_str(related)),
     duration_sec |-> 6]

related_slide(related) ==
    [type |-> "related",
     title |-> T(<<"Related", "topics", "&", "next", "steps">>),
     bullets |-> IF related # <<>> THEN related ELSE <<NoFurtherReading>>,
     notes |-> RELATED_TEMPLATE(related_list_str(related)),
     duration_sec |-> 6]

summary(concept_name, definition) ==
    T(<<"In", "summary,">>) \o <<" ">> \o concept_name \o <<":", " ">>
        \o truncate_text(definition, 20)

summary_slide(concept_name, definition) ==
    [type |-> "summary",
     title |-> T(<<"Summary">>),
     bullets |-> <<truncate_text(definition, 20)>>,
     notes |-> summary(concept_name, definition),
     duration_sec |-> 6]

\* Variant: the related slide is appended only when there are related topics.
slides_without_related(concept_name, definition, related, audience_level) ==
    << title_slide(concept_name, definition),
       definition_slide(concept_name, definition, audience_level),
       example_slide(concept_name, related) >>
    \o (IF related # <<>> THEN <<related_slide(related)>> ELSE <<>>)
    \o << summary_slide(concept_name, definition) >>

\* The slides list after the five appends, in append order.
slides(concept_name, definition, related, audience_level) ==
    << title_slide(concept_name, definition),
       definition_slide(concept_name, definition, audience_level),
       example_slide(concept_name, related),
       related_slide(related),
       summary_slide(concept_name, definition) >>

\* Variant: the narration opens with the title slide's subtitle.
narration_lines_subtitle(concept_name, definition, related, audience_level) ==
    << title_slide(concept_name, definition).subtitle,
       definition_text(concept_name, definition, audience_level),
       example_slide(concept_name, related).notes,
       related_slide(related).notes,
       summary(concept_name, definition) >>

\* The narration_lines list after the five appends, in append order.
narration_lines(concept_name, definition, related, audience_level) ==
    << TITLE_INTRO_TEMPLATE(concept_name),
       definition_text(concept_name, definition, audience_level),
       example_slide(concept_name, related).notes,
       related_slide(related).notes,
       summary(concept_name, definition) >>

\* utcnow is the reading of the clock taken by datetime.utcnow().
generate_slide_deck(concept_name, definition, related, audience_level, utcnow) ==
    [deck |-> [concept |-> concept_name,
               generated_at |-> utcnow,
               audience_level |-> audience_level,
               slides |-> slides(concept_name, definition, related,
                                 audience_level)],
     full_script |-> join(<<"\n", "\n">>,
                          narration_lines(concept_name, definition, related,
                                          audience_level))]

(***************************************************************************)
(* Python values as json produces and consumes them.  A str is tagged so   *)
(* that it is never confused with a list; a dict keeps its members in      *)
(* insertion order, as Python's dict does.                                 *)
(***************************************************************************)

None == [t |-> "null"]
JStr(s) == [t |-> "str", s |-> s]
JArr(items) == [t |-> "arr", items |-> items]
JObj(members) == [t |-> "obj", members |-> members]
M(key, val) == [key |-> key, val |-> val]
\* The tuple (a, b).
Pair(a, b) == [t |-> "tuple", items |-> <<a, b>>]

\* key in d
In(key, d) == \E i \in 1..Len(d.members) : d.members[i].key = key

\* d[key], for a key of d
GetItem(d, key) ==
    d.members[CHOOSE i \in 1..Len(d.members) : d.members[i].key = key].val

\* d.get(key, default)
DictGet(d, key, default) == IF In(key, d) THEN GetItem(d, key) ELSE default

\* d[key] = val while a dict is being built: a repeated key keeps its place
\* and takes the new value.
DictSet(members, key, val) ==
    IF \E i \in 1..Len(members) : members[i].key = key
    THEN [i \in 1..Len(members) |->
             IF members[i].key = key THEN M(key, val) ELSE members[i]]
    ELSE Append(members, M(key, val))

\* The outcome of a call: a returned value or a raised exception.
Return(v) == [exc |-> "none", ret |-> v]
Raise(e) == [exc |-> e, ret |-> None]

(***************************************************************************)
(* json.dump(obj, f, indent=4) and json.load(f).  The text of a file is a  *)
(* sequence of tokens: punctuation, string literals (escaped) and runs of  *)
(* whitespace.                                                             *)
(***************************************************************************)

P(c) == [k |-> "p", v |-> <<c>>]
NL(depth) == [k |-> "ws", v |-> <<"\n">> \o [i \in 1..(4 * depth) |-> " "]]
SP == [k |-> "ws", v |-> <<" ">>]

\* One character of a string literal's body: quote, backslash and control
\* characters are written as escape sequences.
EscapeChar(c) ==
    CASE c = "\"" -> <<"\\", "\"">>
      [] c = "\\" -> <<"\\", "\\">>
      [] c = "\n" -> <<"\\", "n">>
      [] c = "\t" -> <<"\\", "t">>
      [] OTHER -> <<c>>

\* The body of the string literal for s.
Escape(s) == join(<<>>, [i \in 1..Len(s) |-> EscapeChar(s[i])])

\* The number of backslashes that immediately precede position i of v.
BackslashesBefore(v, i) ==
    LET others == {j \in 1..(i - 1) : v[j] # "\\"}
        last == IF others = {} THEN 0
                ELSE CHOOSE j \in others : \A k \in others : k <= j
    IN  i - 1 - last

\* Position i of v is escaped: an odd number of backslashes precede it.
IsEscaped(v, i) == BackslashesBefore(v, i) % 2 = 1

UnescapeChar(c) ==
    CASE c = "\"" -> "\""
      [] c = "\\" -> "\\"
      [] c = "n" -> "\n"
      [] c = "t" -> "\t"

\* The string a literal's body denotes; not ok when the body holds a raw
\* quote, a raw control character, an unknown escape or a trailing backslash.
Unescape(v) ==
    LET n == Len(v)
        bad == \E i \in 1..n :
                  IF IsEscaped(v, i)
                  THEN v[i] \notin {"\"", "\\", "n", "t"}
                  ELSE \/ v[i] \in {"\"", "\n", "\t"}
                       \/ v[i] = "\\" /\ i = n
        kept == SelectSeq(Indices(n),
                          LAMBDA i : IsEscaped(v, i) \/ v[i] # "\\")
    IN  IF bad THEN [ok |-> FALSE, s |-> <<>>]
        ELSE [ok |-> TRUE,
              s |-> [k \in 1..Len(kept) |->
                       IF IsEscaped(v, kept[k]) THEN UnescapeChar(v[kept[k]])
                       ELSE v[kept[k]]]]

DumpStr(s) == [k |-> "str", v |-> Escape(s)]

RECURSIVE Dump(_, _)
\* The tokens json.dump writes for a value nested depth levels deep.
Dump(value, depth) ==
    CASE value.t = "str" -> <<DumpStr(value.s)>>
      [] value.t = "arr" ->
            IF value.items = <<>> THEN <<P("["), P("]")>>
            ELSE <<P("["), NL(depth + 1)>>
                     \o join(<<P(","), NL(depth + 1)>>,
                             [i \in 1..Len(value.items) |->
                                 Dump(value.items[i], depth + 1)])
                     \o <<NL(depth), P("]")>>
      [] value.t = "obj" ->
            IF value.members = <<>> THEN <<P("{"), P("}")>>
            ELSE <<P("{"), NL(depth + 1)>>
                     \o join(<<P(","), NL(depth + 1)>>,
                             [i \in 1..Len(value.members) |->
                                 <<DumpStr(value.members[i].key), P(":"), SP>>
                                     \o Dump(value.members[i].val, depth + 1)])
                     \o <<NL(depth), P("}")>>

json_dump(obj) == Dump(obj, 0)

RECURSIVE SkipWs(_, _)
SkipWs(toks, i) ==
    IF i <= Len(toks) /\ toks[i].k = "ws" THEN SkipWs(toks, i + 1) ELSE i

IsP(toks, i, c) == i <= Len(toks) /\ toks[i] = P(c)

ParseFail == [ok |-> FALSE, val |-> None, pos |-> 0]
ParseOk(val, pos) == [ok |-> TRUE, val |-> val, pos |-> pos]

RECURSIVE ParseValue(_, _)
RECURSIVE ParseElems(_, _, _)
RECURSIVE ParseMembers(_, _, _)
\* The value that starts at token i, and the position after it.
ParseValue(toks, i) ==
    LET j == SkipWs(toks, i)
    IN  IF j > Len(toks) THEN ParseFail
        ELSE IF toks[j].k = "str"
        THEN LET u == Unescape(toks[j].v)
             IN  IF u.ok THEN ParseOk(JStr(u.s), j + 1) ELSE ParseFail
        ELSE IF IsP(toks, j, "[")
        THEN IF IsP(toks, SkipWs(toks, j + 1), "]")
             THEN ParseOk(JArr(<<>>), SkipWs(toks, j + 1) + 1)
             ELSE ParseElems(toks, j + 1, <<>>)
        ELSE IF IsP(toks, j, "{")
        THEN IF IsP(toks, SkipWs(toks, j + 1), "}")
             THEN ParseOk(JObj(<<>>), SkipWs(toks, j + 1) + 1)
             ELSE ParseMembers(toks, j + 1, <<>>)
        ELSE ParseFail

ParseElems(toks, i, acc) ==
    LET r == ParseValue(toks, i)
        j == SkipWs(toks, r.pos)
    IN  IF ~r.ok THEN ParseFail
        ELSE IF IsP(toks, j, ",") THEN ParseElems(toks, j + 1, Append(acc, r.val))
        ELSE IF IsP(toks, j, "]") THEN ParseOk(JArr(Append(acc, r.val)), j + 1)
        ELSE ParseFail

ParseMembers(toks, i, acc) ==
    LET j == SkipWs(toks, i)
        key == IF j <= Len(toks) /\ toks[j].k = "str"
               THEN Unescape(toks[j].v)
               ELSE [ok |-> FALSE, s |-> <<>>]
        c == SkipWs(toks, j + 1)
        r == ParseValue(toks, c + 1)
        e == SkipWs(toks, r.pos)
    IN  IF ~key.ok \/ ~IsP(toks, c, ":") THEN ParseFail
        ELSE IF ~r.ok THEN ParseFail
        ELSE IF IsP(toks, e, ",")
        THEN ParseMembers(toks, e + 1, DictSet(acc, key.s, r.val))
        ELSE IF IsP(toks, e, "}")
        THEN ParseOk(JObj(DictSet(acc, key.s, r.val)), e + 1)
        ELSE ParseFail

\* json.load: the value the whole text denotes, or JSONDecodeError.
json_load(toks) ==
    LET r == ParseValue(toks, 1)
    IN  IF r.ok /\ SkipWs(toks, r.pos) > Len(toks)
        THEN Return(r.val)
        ELSE Raise("JSONDecodeError")

(***************************************************************************)
(* knowledge_graph.py                                                      *)
(***************************************************************************)

Strs(ss) == JArr([i \in 1..Len(ss) |-> JStr(ss[i])])

\* One entry of the table: {"definition": ..., "related": [...]}.
ConceptRecord(definition, related) ==
    JObj(<< M(<<"definition">>, JStr(definition)),
            M(<<"related">>, Strs(related)) >>)

knowledge_graph ==
    JObj(<<
        M(T(<<"Data", "Structures">>),
          ConceptRecord(T(<<"Ways", "to", "store", "and", "organize", "data",
                            "efficiently.">>),
                        <<T(<<"Arrays">>), T(<<"Linked", "List">>),
                          T(<<"Trees">>)>>)),
        M(T(<<"Algorithms">>),
          ConceptRecord(T(<<"Step-by-step", "procedures", "to", "solve",
                            "problems.">>),
                        <<T(<<"Sorting">>), T(<<"Searching">>)>>)),
        M(T(<<"Trees">>),
          ConceptRecord(T(<<"A", "hierarchical", "data", "structure", "with",
                            "nodes.">>),
                        <<T(<<"Binary", "Tree">>), T(<<"Graphs">>)>>)),
        M(T(<<"Graphs">>),
          ConceptRecord(T(<<"A", "collection", "of", "nodes", "connected",
                            "by", "edges.">>),
                        <<T(<<"Trees">>), T(<<"Graph", "Traversal">>)>>))
    >>)

\* Variant: the related list returned is always empty.
get_concept_info_no_related(kg, concept) ==
    IF In(concept, kg)
    THEN Return(Pair(GetItem(GetItem(kg, concept), <<"definition">>),
                     JArr(<<>>)))
    ELSE Return(Pair(None, JArr(<<>>)))

\* get_concept_info(concept), reading the module-level table kg.
get_concept_info(kg, concept) ==
    IF In(concept, kg)
    THEN IF ~In(<<"definition">>, GetItem(kg, concept)) THEN Raise("KeyError")
         ELSE IF ~In(<<"related">>, GetItem(kg, concept)) THEN Raise("KeyError")
         ELSE Return(Pair(GetItem(GetItem(kg, concept), <<"definition">>),
                          GetItem(GetItem(kg, concept), <<"related">>)))
    ELSE Return(Pair(None, JArr(<<>>)))

(***************************************************************************)
(* slides.py: write_simple_manim and the reads of main                     *)
(***************************************************************************)

\* json.dumps(s) of a str: the quoted, escaped literal.
json_dumps(s) == <<"\"">> \o Escape(s) \o <<"\"">>

\* os.path.basename(out_path), for a path with no directory part.
basename(out_path) == out_path

Indent(n) == [i \in 1..n |-> " "]

manim_code(title, subtitle, out_path) ==
    T(<<"#", "Auto-generated", "Manim", "scene", "(Community", "Manim)">>)
        \o <<"\n">>
        \o T(<<"#", "To", "render:", "manim", "-pql">>) \o <<" ">>
        \o basename(out_path) \o <<" ">> \o T(<<"SimpleTitleScene">>) \o <<"\n">>
        \o T(<<"from", "manim", "import", "*">>) \o <<"\n", "\n">>
        \o T(<<"class", "SimpleTitleScene(Scene):">>) \o <<"\n">>
        \o Indent(4) \o T(<<"def", "construct(self):">>) \o <<"\n">>
        \o Indent(8) \o T(<<"title", "=", "Text(">>) \o json_dumps(title)
        \o T(<<").scale(1.2).to_edge(UP)">>) \o <<"\n">>
        \o Indent(8) \o T(<<"subtitle", "=", "Text(">>) \o json_dumps(subtitle)
        \o T(<<").scale(0.6).next_to(title,", "DOWN)">>) \o <<"\n">>
        \o Indent(8) \o T(<<"self.play(Write(title))">>) \o <<"\n">>
        \o Indent(8) \o T(<<"self.wait(0.6)">>) \o <<"\n">>
        \o Indent(8) \o T(<<"self.play(Write(subtitle))">>) \o <<"\n">>
        \o Indent(8) \o T(<<"self.wait(2)">>) \o <<"\n">>

\* write_simple_manim up to its write: the text to write, or None when the
\* deck has no first slide.
write_simple_manim(d, out_path) ==
    IF d.slides = <<>> THEN None
    ELSE JStr(manim_code(d.slides[1].title, d.slides[1].subtitle, out_path))

DefinitionNotAvailable == T(<<"Definition", "not", "available.">>)

\* main, step 2: None when the concept is no key of the table (main prints
\* and returns), else the definition and the related list read for it.
main_read(table, concept) ==
    IF ~In(concept, table) THEN Return(None)
    ELSE Return(Pair(DictGet(GetItem(table, concept), <<"definition">>,
                             JStr(DefinitionNotAvailable)),
                     DictGet(GetItem(table, concept), <<"related">>,
                             JArr(<<>>))))

\* A list of str as the sequence of its strings.
ListOf(v) == [i \in 1..Len(v.items) |-> v.items[i].s]

(***************************************************************************)
(* Inputs                                                                  *)
(***************************************************************************)

MaxLen == 5
MaxN == 3
MaxDefWords == 22
MaxRelated == 2
MaxTime == 2

Times == 1..MaxTime
Levels == {"beginner", "advanced", "expert"}

Trees == T(<<"Trees">>)
BigO == <<"Big", "\"", "O", "\"">>

\* The names looked up: keys of the literal table, a key in another case,
\* names that are no key.
Names == {Trees, T(<<"trees">>), T(<<"Graphs">>), T(<<"Data", "Structures">>),
          T(<<"Quantum", "Foo">>), BigO}

\* k distinct words separated by single spaces.
Words(k) == T([i \in 1..k |-> ToString(i)])

LongDefinition == Words(MaxDefWords)

\* Tables a knowledge_graph.json may hold: the literal one, and tables whose
\* records lack fields, have no related topic, or need escaping.
Tables ==
    { knowledge_graph,
      JObj(<<>>),
      JObj(<<M(Trees, JObj(<<M(<<"definition">>, JStr(Words(3)))>>))>>),
      JObj(<<M(Trees, JObj(<<M(<<"related">>, Strs(<<T(<<"Graphs">>)>>))>>))>>),
      JObj(<<M(Trees, JObj(<<>>))>>),
      JObj(<<M(Trees, ConceptRecord(LongDefinition, <<>>))>>),
      JObj(<<M(BigO, ConceptRecord(<<"f", "\\", "\n", "g", "\t", "h">>,
                                   <<Trees, <<>>, BigO>>)),
             M(T(<<"trees">>), ConceptRecord(Words(2), <<Trees>>))>>) }

File(text) == [exists |-> TRUE, text |-> text]
Absent == [exists |-> FALSE, text |-> <<>>]

\* Texts that are no JSON document: an empty file, a document cut short, a
\* stray closing brace, a literal with a raw quote in it.
BadTexts ==
    { <<>>,
      SubSeq(json_dump(knowledge_graph), 1, 12),
      json_dump(JObj(<<>>)) \o <<P("}")>>,
      <<P("{"), [k |-> "str", v |-> <<"a", "\"", "b">>], P(":"),
        DumpStr(<<"x">>), P("}")>> }

InitialKgFiles ==
    {Absent} \cup {File(json_dump(t)) : t \in Tables}
             \cup {File(b) : b \in BadTexts}

RECURSIVE SeqsUpTo(_, _)
\* All sequences over S of length at most n.
SeqsUpTo(S, n) ==
    IF n = 0 THEN {<<>>}
    ELSE LET shorter == SeqsUpTo(S, n - 1)
         IN  shorter \cup {Append(q, x) : q \in shorter, x \in S}

Texts == SeqsUpTo({"a", "...", " ", "\n"}, MaxLen)

Definitions ==
    {Words(k) : k \in 0..MaxDefWords}
        \cup {<<" ", "a", " ", " ", "b", "\n", "c", " ">>,
              T(<<"A", "hierarchical", "data", "structure", "with", "nodes.">>)}

RelatedLists == SeqsUpTo({<<>>, T(<<"Graphs">>), Words(3)}, MaxRelated)

(***************************************************************************)
(* State                                                                   *)
(***************************************************************************)

VARIABLES
    kgFile,         \* knowledge_graph.json
    slidesFile,     \* slides.json
    scriptFile,     \* script.txt
    manimFile,      \* generated_manim.py
    stdout,         \* what the scripts printed, in order
    kgpc,           \* knowledge_graph.py: where the script is
    kg,             \* knowledge_graph.py: the module-level kg
    query,          \* knowledge_graph.py: the module-level query
    result,         \* knowledge_graph.py: the outcome of get_concept_info(query)
    pc,             \* slides.py: where main is
    concept_query,  \* main's first argument
    audience_level, \* main's second argument
    mainKg,         \* main's local kg
    deck,           \* main's local deck
    script,         \* main's local script
    exc,            \* the exception that left main, if any
    writes,         \* the files main wrote, in order
    before,         \* the output files as they were when main was called
    trunc,          \* truncate_text applied once and twice to an input
    gen,            \* generate_slide_deck applied to an input
    lookup          \* the two reads of a concept applied to a table

fsVars == <<kgFile, slidesFile, scriptFile, manimFile>>
outVars == <<slidesFile, scriptFile, manimFile>>
kgVars == <<kgpc, kg, query, result>>
mainVars == <<pc, concept_query, audience_level, mainKg, deck, script, exc,
              writes, before>>
fnVars == <<trunc, gen, lookup>>
vars == <<fsVars, stdout, kgVars, mainVars, fnVars>>

StaleDeck == [concept |-> <<"stale">>]
StaleText == <<"stale">>

OrchInit ==
    /\ kgFile \in InitialKgFiles
    /\ \/ /\ slidesFile = [exists |-> FALSE, data |-> None]
          /\ scriptFile = Absent
          /\ manimFile = Absent
       \/ /\ slidesFile = [exists |-> TRUE, data |-> StaleDeck]
          /\ scriptFile = File(StaleText)
          /\ manimFile = File(StaleText)
    /\ stdout = <<>>
    /\ kgpc = "start" /\ kg = None /\ query = <<>> /\ result = Return(None)
    /\ pc = "idle" /\ concept_query = <<>> /\ audience_level = "beginner"
    /\ mainKg = None /\ deck = None /\ script = <<>> /\ exc = "none"
    /\ writes = <<>>
    /\ before = <<slidesFile, scriptFile, manimFile>>

OrchOff ==
    /\ kgFile = Absent
    /\ slidesFile = [exists |-> FALSE, data |-> None]
    /\ scriptFile = Absent /\ manimFile = Absent
    /\ stdout = <<>>
    /\ kgpc = "off" /\ kg = None /\ query = <<>> /\ result = Return(None)
    /\ pc = "off" /\ concept_query = <<>> /\ audience_level = "beginner"
    /\ mainKg = None /\ deck = None /\ script = <<>> /\ exc = "none"
    /\ writes = <<>>
    /\ before = <<slidesFile, scriptFile, manimFile>>

Off == [pc |-> "off"]

TruncInit ==
    /\ trunc \in {[pc |-> "in", text |-> t, max_words |-> n,
                   once |-> <<>>, twice |-> <<>>] : t \in Texts, n \in 0..MaxN}
    /\ gen = Off /\ lookup = Off

GenInit ==
    /\ gen \in {[pc |-> "in", concept_name |-> c, definition |-> d,
                 related |-> r, audience_level |-> a, utcnow |-> now,
                 deck |-> None, full_script |-> <<>>] :
                    c \in {Trees, T(<<"Data", "Structures">>)},
                    d \in Definitions, r \in RelatedLists, a \in Levels,
                    now \in Times}
    /\ trunc = Off /\ lookup = Off

LookupInit ==
    /\ lookup \in {[pc |-> "in", kg |-> t, concept |-> c,
                    info |-> Return(None), fetched |-> Return(None)] :
                       t \in Tables, c \in Names}
    /\ trunc = Off /\ gen = Off

Init == OrchInit /\ trunc = Off /\ gen = Off /\ lookup = Off

InitFunctions == OrchOff /\ (TruncInit \/ GenInit \/ LookupInit)

(***************************************************************************)
(* knowledge_graph.py, run as a script                                     *)
(***************************************************************************)

IO == {"ok", "OSError"}
MainAtRest == pc \in {"idle", "returned", "raised"}
KgAtRest == kgpc \in {"start", "done", "raised"}

\* with open("knowledge_graph.json", "w") as f: json.dump(knowledge_graph, f)
KGPersist ==
    /\ kgpc = "start" /\ MainAtRest
    /\ \E io \in IO :
          IF io = "ok"
          THEN kgFile' = File(json_dump(knowledge_graph)) /\ kgpc' = "persisted"
          ELSE kgFile' = kgFile /\ kgpc' = "raised"
    /\ UNCHANGED <<outVars, stdout, kg, query, result, mainVars, fnVars>>

\* with open("knowledge_graph.json", "r") as f: kg = json.load(f)
KGReload ==
    /\ kgpc = "persisted"
    /\ \E io \in IO :
          LET r == json_load(kgFile.text)
          IN  IF io = "ok" /\ kgFile.exists /\ r.exc = "none"
              THEN kg' = r.ret /\ kgpc' = "loaded"
              ELSE kg' = kg /\ kgpc' = "raised"
    /\ UNCHANGED <<fsVars, stdout, query, result, mainVars, fnVars>>

\* query = ...; definition, related = get_concept_info(query); if definition: ...
KGQuery ==
    /\ kgpc = "loaded"
    /\ \E q \in Names :
          LET r == get_concept_info(kg, q)
          IN  /\ query' = q
              /\ result' = r
              /\ IF r.exc # "none"
                 THEN stdout' = stdout /\ kgpc' = "raised"
                 ELSE /\ kgpc' = "done"
                      /\ stdout' = Append(stdout,
                             IF r.ret.items[1] # None /\ r.ret.items[1].s # <<>>
                             THEN "concept" ELSE "sorry")
    /\ UNCHANGED <<fsVars, kg, mainVars, fnVars>>

(***************************************************************************)
(* slides.py: main                                                         *)
(***************************************************************************)

\* main(concept_query, audience_level) is called.
MainStart ==
    /\ pc = "idle" /\ KgAtRest
    /\ \E c \in Names, a \in Levels :
          concept_query' = c /\ audience_level' = a
    /\ pc' = "load"
    /\ before' = <<slidesFile, scriptFile, manimFile>>
    /\ UNCHANGED <<fsVars, stdout, kgVars, mainKg, deck, script, exc, writes,
                   fnVars>>

\* 1) with open("knowledge_graph.json", "r") as f: kg = json.load(f)
MainLoad ==
    /\ pc = "load"
    /\ \E io \in IO :
          LET r == json_load(kgFile.text)
          IN  IF ~kgFile.exists
              THEN pc' = "raised" /\ exc' = "FileNotFoundError" /\ mainKg' = mainKg
              ELSE IF io # "ok"
              THEN pc' = "raised" /\ exc' = "OSError" /\ mainKg' = mainKg
              ELSE IF r.exc # "none"
              THEN pc' = "raised" /\ exc' = r.exc /\ mainKg' = mainKg
              ELSE pc' = "fetch" /\ exc' = exc /\ mainKg' = r.ret
    /\ UNCHANGED <<fsVars, stdout, kgVars, concept_query, audience_level, deck,
                   script, writes, before, fnVars>>

\* Variant: the not-found branch prints and falls through instead of
\* returning, with the defaults standing in for the record.
MainFetch_no_return ==
    /\ pc = "fetch"
    /\ LET r == main_read(mainKg, concept_query)
           found == r.ret # None
       IN  \E now \in Times :
              LET g == generate_slide_deck(
                           concept_query,
                           IF found THEN r.ret.items[1].s
                           ELSE DefinitionNotAvailable,
                           IF found THEN ListOf(r.ret.items[2]) ELSE <<>>,
                           audience_level, now)
              IN  /\ deck' = g.deck
                  /\ script' = g.full_script
                  /\ pc' = "save_deck"
                  /\ stdout' = IF found THEN stdout
                               ELSE Append(stdout, "not_found")
    /\ UNCHANGED <<fsVars, kgVars, concept_query, audience_level, mainKg, exc,
                   writes, before, fnVars>>

\* 2) the not-found check and the two reads; 3) generate_slide_deck
MainFetch ==
    /\ pc = "fetch"
    /\ LET r == main_read(mainKg, concept_query)
       IN  IF r.ret = None
           THEN /\ stdout' = Append(stdout, "not_found")
                /\ pc' = "returned"
                /\ UNCHANGED <<deck, script>>
           ELSE \E now \in Times :
                   LET g == generate_slide_deck(concept_query,
                                                r.ret.items[1].s,
                                                ListOf(r.ret.items[2]),
                                                audience_level, now)
                   IN  /\ deck' = g.deck
                       /\ script' = g.full_script
                       /\ pc' = "save_deck"
                       /\ stdout' = stdout
    /\ UNCHANGED <<fsVars, kgVars, concept_query, audience_level, mainKg, exc,
                   writes, before, fnVars>>

\* 4) with open("slides.json", "w") as f: json.dump(deck, f, indent=4)
MainSaveDeck ==
    /\ pc = "save_deck"
    /\ \E io \in IO :
          IF io = "ok"
          THEN /\ slidesFile' = [exists |-> TRUE, data |-> deck]
               /\ writes' = Append(writes, "slides.json")
               /\ pc' = "save_script" /\ exc' = exc
          ELSE /\ pc' = "raised" /\ exc' = "OSError"
               /\ UNCHANGED <<slidesFile, writes>>
    /\ UNCHANGED <<kgFile, scriptFile, manimFile, stdout, kgVars, concept_query,
                   audience_level, mainKg, deck, script, before, fnVars>>

\* 4) with open("script.txt", "w") as f: f.write(script)
MainSaveScript ==
    /\ pc = "save_script"
    /\ \E io \in IO :
          IF io = "ok"
          THEN /\ scriptFile' = File(script)
               /\ writes' = Append(writes, "script.txt")
               /\ pc' = "manim" /\ exc' = exc
          ELSE /\ pc' = "raised" /\ exc' = "OSError"
               /\ UNCHANGED <<scriptFile, writes>>
    /\ UNCHANGED <<kgFile, slidesFile, manimFile, stdout, kgVars, concept_query,
                   audience_level, mainKg, deck, script, before, fnVars>>

\* 5) write_simple_manim(deck, out_path="generated_manim.py"); 6) the preview
MainWriteManim ==
    /\ pc = "manim"
    /\ LET code == write_simple_manim(deck, <<"generated_manim.py">>)
       IN  IF code = None
           THEN /\ pc' = "returned"
                /\ stdout' = stdout \o <<"deck", "script", "preview">>
                /\ UNCHANGED <<manimFile, writes, exc>>
           ELSE \E io \in IO :
                   IF io = "ok"
                   THEN /\ manimFile' = File(code.s)
                        /\ writes' = Append(writes, "generated_manim.py")
                        /\ pc' = "returned" /\ exc' = exc
                        /\ stdout' = stdout
                                \o <<"deck", "script", "manim", "preview">>
                   ELSE /\ pc' = "raised" /\ exc' = "OSError"
                        /\ UNCHANGED <<manimFile, writes, stdout>>
    /\ UNCHANGED <<kgFile, slidesFile, scriptFile, kgVars, concept_query,
                   audience_level, mainKg, deck, script, before, fnVars>>

Next ==
    \/ KGPersist
    \/ KGReload
    \/ KGQuery
    \/ MainStart
    \/ MainLoad
    \/ MainFetch
    \/ MainSaveDeck
    \/ MainSaveScript
    \/ MainWriteManim

Spec == Init /\ [][Next]_vars

(***************************************************************************)
(* The functions applied to inputs                                         *)
(***************************************************************************)

orchVars == <<fsVars, stdout, kgVars, mainVars>>

Truncate ==
    /\ trunc.pc = "in"
    /\ trunc' = [trunc EXCEPT !.pc = "once",
                              !.once = truncate_text(trunc.text, trunc.max_words)]
    /\ UNCHANGED <<orchVars, gen, lookup>>

TruncateAgain ==
    /\ trunc.pc = "once"
    /\ trunc' = [trunc EXCEPT !.pc = "twice",
                              !.twice = truncate_text(trunc.once, trunc.max_words)]
    /\ UNCHANGED <<orchVars, gen, lookup>>

Generate ==
    /\ gen.pc = "in"
    /\ LET g == generate_slide_deck(gen.concept_name, gen.definition,
                                    gen.related, gen.audience_level, gen.utcnow)
       IN  gen' = [gen EXCEPT !.pc = "done", !.deck = g.deck,
                              !.full_script = g.full_script]
    /\ UNCHANGED <<orchVars, trunc, lookup>>

CallGetConceptInfo ==
    /\ lookup.pc = "in"
    /\ lookup' = [lookup EXCEPT !.pc = "info",
                                !.info = get_concept_info(lookup.kg, lookup.concept)]
    /\ UNCHANGED <<orchVars, trunc, gen>>

CallMainRead ==
    /\ lookup.pc = "info"
    /\ lookup' = [lookup EXCEPT !.pc = "done",
                                !.fetched = main_read(lookup.kg, lookup.concept)]
    /\ UNCHANGED <<orchVars, trunc, gen>>

NextFunctions ==
    \/ Truncate
    \/ TruncateAgain
    \/ Generate
    \/ CallGetConceptInfo
    \/ CallMainRead

SpecFunctions == InitFunctions /\ [][NextFunctions]_vars

(***************************************************************************)
(* Properties                                                              *)
(***************************************************************************)

GenDone == gen.pc = "done"
Slide(i) == gen.deck.slides[i]
Kinds == [i \in 1..Len(gen.deck.slides) |-> gen.deck.slides[i].type]
NonEmpty(lst) == SelectSeq(lst, LAMBDA x : x # <<>>)
IsPrefix(a, b) == Len(a) <= Len(b) /\ a = SubSeq(b, 1, Len(a))
Min(a, b) == IF a < b THEN a ELSE b
BlankLine == <<"\n", "\n">>

\* How many times atom c occurs in text.
Count(text, c) == Cardinality({i \in 1..Len(text) : text[i] = c})

\* C1: for every concept name, definition, related list (empty or not) and
\* audience level, the deck generate_slide_deck returns has exactly five
\* slides, of kinds title, definition, example, related, summary in this
\* order.
C1_FiveSlidesInOrder ==
    GenDone =>
        Kinds = <<"title", "definition", "example", "related", "summary">>

C1_Witness ==
    /\ GenDone /\ gen.related = <<>>
    /\ Len(gen.deck.slides) = 5 /\ Slide(4).type = "related"

\* C4: truncating a truncated string again with the same limit returns it
\* unchanged and adds no further ellipsis; a string of at most N words is
\* returned with no ellipsis added.
C4_TruncateIdempotent ==
    /\ trunc.pc = "twice" =>
          /\ trunc.twice = trunc.once
          /\ Count(trunc.twice, "...") = Count(trunc.once, "...")
    /\ (trunc.pc \in {"once", "twice"}
            /\ Len(split(trunc.text)) <= trunc.max_words) =>
          /\ Count(trunc.once, "...") = Count(trunc.text, "...")
          /\ trunc.once = join(<<" ">>, split(trunc.text))

C4_Witness ==
    /\ trunc.pc = "twice"
    /\ trunc.max_words = 2
    /\ Len(split(trunc.text)) = 3
    /\ trunc.once = trunc.twice
    /\ Count(trunc.once, "...") = Count(trunc.text, "...") + 1

\* C5: with an empty related list the example slide still has bullets and
\* notes, built from the generic placeholder example, and the related slide
\* has exactly one bullet, the placeholder.
C5_EmptyRelatedFallback ==
    (GenDone /\ gen.related = <<>>) =>
        /\ Slide(3).bullets # <<>>
        /\ \A i \in 1..Len(Slide(3).bullets) : Slide(3).bullets[i] # <<>>
        /\ Slide(3).notes =
              T(<<"Example:", "Consider", "a", "simple", "conceptual",
                  "scenario">>) \o <<".", " ">>
              \o T(<<"This", "demonstrates", "the", "main", "idea:", "the",
                     "core", "intuition", "behind">>)
              \o <<" ">> \o gen.concept_name \o <<".">>
        /\ Slide(4).bullets = <<T(<<"Further", "reading", "not", "available">>)>>

C5_Witness ==
    /\ GenDone /\ gen.related = <<>>
    /\ Len(Slide(4).bullets) = 1 /\ Len(Slide(3).bullets) = 3

\* C8: on the related slide the bullets are the related list verbatim when
\* it is non-empty; the notes are the related template filled with the
\* comma-joined non-empty entries when the list is non-empty, and are the
\* fixed "no topics" sentence itself, not the template, when it is empty.
C8_RelatedSlide ==
    GenDone =>
        /\ gen.related # <<>> =>
              /\ Slide(4).bullets = gen.related
              /\ Slide(4).notes =
                    T(<<"Related", "topics", "you", "might", "want", "to",
                        "learn", "next:">>) \o <<" ">>
                    \o join(<<",", " ">>, NonEmpty(gen.related)) \o <<".">>
        /\ gen.related = <<>> =>
              Slide(4).notes = T(<<"No", "related", "topics", "available.">>)

\* C9: the narration is the five paragraphs in slide order separated by
\* blank lines: the greeting for the concept (not the subtitle), the notes
\* of the definition, example and related slides, and the summary sentence,
\* which is the summary slide's notes; each once.
C9_NarrationAssembly ==
    GenDone =>
        /\ gen.full_script =
              T(<<"Welcome", "--", "today", "we'll", "learn", "about">>)
                  \o <<" ">> \o gen.concept_name \o <<".">>
              \o BlankLine \o Slide(2).notes
              \o BlankLine \o Slide(3).notes
              \o BlankLine \o Slide(4).notes
              \o BlankLine \o Slide(5).notes
        /\ Slide(5).notes =
              T(<<"In", "summary,">>) \o <<" ">> \o gen.concept_name
                  \o <<":", " ">> \o Slide(5).bullets[1]

C9_Witness ==
    /\ GenDone /\ gen.related # <<>>
    /\ Len(split(gen.definition)) > 15
    /\ Slide(1).subtitle # gen.definition
    /\ IsPrefix(T(<<"Welcome">>), gen.full_script)

\* The words of text: none empty, none holding whitespace, and together all
\* of text that is not whitespace, in order.
IsWordsOf(w, text) ==
    /\ \A i \in 1..Len(w) :
          w[i] # <<>> /\ \A j \in 1..Len(w[i]) : ~IsSpace(w[i][j])
    /\ join(<<>>, w) = SelectSeq(text, LAMBDA c : ~IsSpace(c))

\* C10: truncate_text returns the first min(N, word count) whitespace
\* delimited words joined by single spaces, followed by the ellipsis exactly
\* when the input has more than N words; generate_slide_deck applies it with
\* N = 15 for the subtitle, 20 for the definition bullet, the summary bullet
\* and the summary sentence, and 6 for the example title.
C10_TruncationRule ==
    /\ trunc.pc \in {"once", "twice"} =>
          LET w == split(trunc.text)
              n == Min(trunc.max_words, Len(w))
          IN  /\ IsWordsOf(w, trunc.text)
              /\ trunc.once =
                    join(<<" ">>, [i \in 1..n |-> w[i]])
                    \o (IF Len(w) > trunc.max_words THEN <<"...">> ELSE <<>>)
    /\ GenDone =>
          /\ Slide(1).subtitle = truncate_text(gen.definition, 15)
          /\ Slide(2).bullets = <<truncate_text(gen.definition, 20)>>
          /\ Slide(5).bullets = <<truncate_text(gen.definition, 20)>>
          /\ Slide(5).notes =
                T(<<"In", "summary,">>) \o <<" ">> \o gen.concept_name
                    \o <<":", " ">> \o truncate_text(gen.definition, 20)
          /\ Slide(3).title =
                T(<<"Simple", "example:">>) \o <<" ">>
                \o truncate_text(
                       IF gen.related # <<>>
                       THEN T(<<"a", "simple", "case", "involving">>)
                                \o <<" ">> \o gen.related[1]
                       ELSE T(<<"a", "simple", "conceptual", "scenario">>), 6)

C10_Witness ==
    /\ GenDone
    /\ Len(split(gen.definition)) > 20
    /\ Slide(1).subtitle = Words(15) \o <<"...">>
    /\ Slide(2).bullets = <<Words(20) \o <<"...">>>>
    /\ gen.related # <<>> /\ gen.related[1] = Words(3)
    /\ Slide(3).title =
          T(<<"Simple", "example:", "a", "simple", "case", "involving", "1",
              "2">>) \o <<"...">>

\* C7: a record that lacks the related field or the definition field is
\* read with the related list defaulted to empty and the definition to the
\* placeholder, on both read paths of a present concept: get_concept_info
\* and main.
C7_MissingFieldsDefaulted ==
    (lookup.pc \in {"info", "done"} /\ In(lookup.concept, lookup.kg)) =>
        LET rec == GetItem(lookup.kg, lookup.concept)
            expected ==
                Pair(IF In(<<"definition">>, rec)
                     THEN GetItem(rec, <<"definition">>)
                     ELSE JStr(T(<<"Definition", "not", "available.">>)),
                     IF In(<<"related">>, rec)
                     THEN GetItem(rec, <<"related">>)
                     ELSE JArr(<<>>))
        IN  /\ lookup.info = Return(expected)
            /\ lookup.pc = "done" => lookup.fetched = Return(expected)

Queried == kgpc \in {"done", "raised"} /\ query # <<>>

\* C2: the reloaded table equals the literal table that was persisted; a
\* lookup of a name that is a key (exact, case-sensitive) returns the
\* definition and the related list stored under it, and a lookup of any
\* other name returns (None, []) without raising.
C2_LookupOnReloadedTable ==
    /\ kgpc \in {"loaded", "done"} => kg = knowledge_graph
    /\ Queried =>
          /\ kgpc = "done" /\ result.exc = "none"
          /\ \A i \in 1..Len(knowledge_graph.members) :
                knowledge_graph.members[i].key = query =>
                    result.ret =
                        Pair(knowledge_graph.members[i].val.members[1].val,
                             knowledge_graph.members[i].val.members[2].val)
          /\ (\A i \in 1..Len(knowledge_graph.members) :
                knowledge_graph.members[i].key # query) =>
                    result.ret = Pair(None, JArr(<<>>))

C2_Witness ==
    /\ kgpc = "done" /\ query = Trees
    /\ kg = knowledge_graph
    /\ result.ret =
          Pair(JStr(T(<<"A", "hierarchical", "data", "structure", "with",
                        "nodes.">>)),
               Strs(<<T(<<"Binary", "Tree">>), T(<<"Graphs">>)>>))

OutputFiles == <<"slides.json", "script.txt", "generated_manim.py">>
Loaded == mainKg # None

\* C3: main called with a name that is no key of the table reports
\* not-found and returns, and writes none of the deck file, the narration
\* file and the stub, which stay as they were; with a name that is a key it
\* writes the deck file, then the narration file, then the stub.
C3_NotFoundWritesNothing ==
    /\ (Loaded /\ ~In(concept_query, mainKg)) =>
          /\ pc \in {"fetch", "returned"}
          /\ writes = <<>>
          /\ <<slidesFile, scriptFile, manimFile>> = before
          /\ pc = "returned" =>
                \E i \in 1..Len(stdout) : stdout[i] = "not_found"
    /\ (Loaded /\ In(concept_query, mainKg)) =>
          /\ IsPrefix(writes, OutputFiles)
          /\ \A i \in 1..Len(stdout) : stdout[i] # "not_found"
          /\ pc = "returned" =>
                /\ writes = OutputFiles
                /\ slidesFile = [exists |-> TRUE, data |-> deck]
                /\ scriptFile = File(script)
                /\ manimFile.exists /\ manimFile # before[3]

C3_Witness ==
    /\ Loaded /\ ~In(concept_query, mainKg)
    /\ pc = "returned"
    /\ concept_query = T(<<"Quantum", "Foo">>)
    /\ slidesFile = [exists |-> TRUE, data |-> StaleDeck]
    /\ writes = <<>>

\* C6: a FormatError or an IOError during the orchestration is reported and
\* the run completes or exits gracefully; it does not leave the entry point
\* as an unhandled exception.
C6_ErrorsReported ==
    /\ pc # "raised"
    /\ kgpc # "raised"

====
